---- MODULE Spec2Model ----
(***************************************************************************)
(* FZPCheckerRunner (scripts/checks/fzp_checker_runner.py): one FZP part   *)
(* description is parsed, driven through the requested FZP rules, and, if  *)
(* SVG rules were requested, each view's SVG asset is resolved, loaded and *)
(* driven through the requested SVG rules, accumulating total_errors.      *)
(*                                                                         *)
(* The files on disk (the FZP document, its views, the SVG assets) are     *)
(* fixed when a behaviour starts; the Runner only reads them.              *)
(***************************************************************************)
EXTENDS Integers, Sequences, FiniteSets, TLC

\* ------------------------------------------------------------------ bounds
MaxViews == 2
MaxChecks == 2

\* ------------------------------------------------------- registered rules
\* The classes listed in the two module-level registries.
AVAILABLE_CHECKERS ==
    << "FZPMissingTagsChecker", "FZPConnectorTerminalChecker",
       "FZPConnectorVisibilityChecker", "FZPPCBConnectorStrokeChecker" >>

SVG_AVAILABLE_CHECKERS ==
    << "SVGFontSizeChecker", "SVGViewBoxChecker", "SVGIdsChecker" >>

\* checker.get_name(): the names the tests select the rules by.  The name of
\* the PCB stroke rule appears in no caller; it only has to differ from the
\* others.
get_name(checker) ==
    CASE checker = "FZPMissingTagsChecker"         -> "missing_tags"
      [] checker = "FZPConnectorTerminalChecker"   -> "connector_terminal"
      [] checker = "FZPConnectorVisibilityChecker" -> "connector_visibility"
      [] checker = "FZPPCBConnectorStrokeChecker"  -> "pcb_connector_stroke"
      [] checker = "SVGFontSizeChecker"            -> "font_size"
      [] checker = "SVGViewBoxChecker"             -> "viewbox"
      [] checker = "SVGIdsChecker"                 -> "ids"

\* The classes _get_checker constructs with (fzp_doc, self.path).
PathAwareCheckers ==
    { "FZPConnectorTerminalChecker", "FZPConnectorVisibilityChecker",
      "FZPPCBConnectorStrokeChecker" }

\* What a failed lookup raises.
ValueError == "ValueError"
NoPath == "no_path"

\* Lookup with a fall-back: an unmatched name yields the first class of the
\* registry instead of ValueError.
Lookup_FirstOnMiss(registry, check_type) ==
    LET hits == { k \in 1..Len(registry) : get_name(registry[k]) = check_type }
    IN  registry[IF hits = {} THEN 1 ELSE CHOOSE k \in hits : \A m \in hits : k <= m]

\* The first class of registry whose name is check_type, or ValueError.
Lookup(registry, check_type) ==
    LET hits == { k \in 1..Len(registry) : get_name(registry[k]) = check_type }
    IN  IF hits = {} THEN ValueError
        ELSE registry[CHOOSE k \in hits : \A m \in hits : k <= m]

\* Every rule constructed with the document alone.
_get_checker_NoPath(check_type, doc, self_path) ==
    [cls |-> Lookup(AVAILABLE_CHECKERS, check_type), doc |-> doc.name, path |-> NoPath]

\* _get_checker: the rule instance bound to the document, and to the
\* Runner's path when the class is path-aware.
\* (A failed lookup is the class ValueError; the caller raises on it.)
_get_checker(check_type, doc, self_path) ==
    LET cls == Lookup(AVAILABLE_CHECKERS, check_type)
    IN  [cls |-> cls, doc |-> doc.name,
         path |-> IF cls \in PathAwareCheckers THEN self_path ELSE NoPath]

\* _get_svg_checker: the rule instance bound to the SVG document and the
\* view's layer ids.
_get_svg_checker(check_type, svg, layer_ids) ==
    [cls |-> Lookup(SVG_AVAILABLE_CHECKERS, check_type), doc |-> svg,
     layer_ids |-> layer_ids]

\* The path a rule instance was constructed with, if any.
ConstructorPath(checker) == IF checker.path = NoPath THEN << >> ELSE << checker.path >>

\* --------------------------------------------------------- files on disk
NoImage == "no_image"
None == "None"

\* A layer entry without a layerId attribute.
NoLayerId == "no_layerId"

\* The layer entries of a layers block, by their layerId.
SomeLayers == << "copper0", NoLayerId, "silkscreen" >>

\* layer_ids carried over instead of starting empty for the view.
collect_layer_ids_Carried(layer_ids, layer_elements) ==
    layer_ids \o SelectSeq(layer_elements, LAMBDA id : id # NoLayerId /\ id # "")

\* layer_ids = [] followed by the loop over layers.xpath("layer"): the
\* layerIds that are present and not empty, in document order.
collect_layer_ids(layer_ids, layer_elements) ==
    SelectSeq(layer_elements, LAMBDA id : id # NoLayerId /\ id # "")

\* Values of a layers block's image attribute: absent, a template
\* placeholder, and references to an asset that is not on disk, that is
\* malformed, that is well-formed without violations and with violations.
Images == { NoImage, "template.svg", "gone.svg", "bad.svg", "clean.svg", "dirty.svg" }

\* The children of the views element: the real views, with or without a
\* layers block, and the pseudo-view defaultUnits, without a layers block
\* or with one that names an asset.
\* A layers block here holds the layer entries SomeLayers.
ViewElements ==
    [ tag : {"breadboard"}, has_layers : {TRUE}, image : Images,
      layer_elements : { SomeLayers } ]
    \cup [ tag : {"breadboard", "defaultUnits"}, has_layers : {FALSE}, image : {NoImage},
           layer_elements : { << >> } ]
    \cup [ tag : {"defaultUnits"}, has_layers : {TRUE}, image : {"gone.svg"},
           layer_elements : { SomeLayers } ]

SeqsUpTo(S, n) == UNION { [1..k -> S] : k \in 0..n }

\* Well-formed FZP documents: with or without rule violations, with or
\* without a views element.
WellFormedDocs ==
    [ name : {"clean.fzp", "dirty.fzp"}, wellformed : {TRUE}, has_views : {TRUE},
      views : SeqsUpTo(ViewElements, MaxViews) ]
    \cup [ name : {"clean.fzp", "dirty.fzp"}, wellformed : {TRUE}, has_views : {FALSE},
           views : { << >> } ]

\* A file that is not well-formed XML.
MalformedDoc ==
    [ name |-> "broken.fzp", wellformed |-> FALSE, has_views |-> FALSE, views |-> << >> ]

\* What can be stored at self.path.
FzpFiles == WellFormedDocs \cup { MalformedDoc }

NoDoc == [ name |-> None, wellformed |-> FALSE, has_views |-> FALSE, views |-> << >> ]

\* FZPUtils.get_svg_path(path, image, view): None for a template
\* placeholder, else the asset's path, composed of the FZP's path, the view
\* and the image reference.
NoAsset == [ fzp |-> None, view |-> None, image |-> None ]

get_svg_path(self_path, image, view_tag) ==
    IF image = "template.svg" THEN NoAsset
    ELSE [ fzp |-> self_path, view |-> view_tag, image |-> image ]

\* os.path.isfile(svg_path)
isfile(svg_path) == svg_path.image # "gone.svg"

\* etree.parse(svg_path) succeeds (else it raises XMLSyntaxError).
svg_parses(svg_path) == svg_path.image # "bad.svg"

\* The tag compared in another spelling: no element matches.
IsPseudoView_Misspelt(v) == v.tag = "defaultunits"

\* view.tag == "defaultUnits"
IsPseudoView(v) == v.tag = "defaultUnits"

\* `if image:` -- the attribute is present and not empty.
Truthy(image) == image # NoImage /\ image # ""

\* checker.check() of an FZP rule: the count of violations it finds.
fzp_check(checker) ==
    IF checker.doc = "clean.fzp" THEN 0
    ELSE IF checker.doc = "flood.fzp" THEN 256
    ELSE CASE checker.cls = "FZPMissingTagsChecker" -> 1
           [] checker.cls = "FZPConnectorTerminalChecker" -> 2
           [] OTHER -> 3

\* checker.check() of an SVG rule.
svg_check(checker) ==
    IF checker.doc.image = "clean.svg" THEN 0
    ELSE CASE checker.cls = "SVGFontSizeChecker" -> 1
           [] OTHER -> 2

\* --------------------------------------------------------- requested checks
\* The names a caller asks for: registered ones and one that is not.
FzpCheckNames == { "connector_terminal", "no_such_check" }
SvgCheckNames == { "font_size", "no_such_check" }

\* ------------------------------------------------------------ printed lines
\* A printed line: its fixed text and the values interpolated into it.
Line(text, fzp, view, name, n) ==
    [ text |-> text, file |-> fzp, view |-> view, name |-> name, n |-> n ]

\* One call made by the Runner (history).
\* A rule constructed and run: args are the constructor's arguments after the
\* document, doc is the document it is bound to.
RuleEvent(op, name, view, n, doc, args) ==
    [ op |-> op, name |-> name, view |-> view, n |-> n, doc |-> doc, args |-> args ]

Event(op, name, view, n) == RuleEvent(op, name, view, n, "", << >>)

\* A document tree held in memory: the FZP of a path, or the SVG of one of
\* its views.
DocHandle(kind, fzp, view) == [ kind |-> kind, fzp |-> fzp, view |-> view ]

VARIABLES
    path,             \* self.path
    verbose,          \* self.verbose
    total_errors,     \* self.total_errors
    file,             \* what is stored at self.path
    check_types,      \* argument of check()
    svg_check_types,  \* argument of check()
    pc,               \* position inside check()
    fzp_doc,          \* local of check(): the parsed FZP
    ci,               \* index of the for loop over check_types
    vi,               \* index of the for loop over the views
    si,               \* index of the for loop over svg_check_types
    svg_doc,          \* local of _run_svg_checkers
    raised,           \* the exception that left check(), or None
    out,              \* the lines printed by the current call
    trace,            \* history: the calls made by the current call
    run,              \* "first" or "second" call of check() on this Runner
    first,            \* what the first call left behind, once it has ended
    layer_ids,        \* local of _run_svg_checkers
    loaded,           \* history: the document trees parsed and not yet cleared
    fzp_files,        \* the files a caller's loop goes over, as stored on disk
    caller,           \* who calls check(): a test, search_and_check_fzp_files, __main__
    cpc,              \* position inside the caller
    fi,               \* index of the caller's for loop over fzp_files
    sum_errors,       \* the caller's sum: errors of the search, total_errors of __main__
    exit_status,      \* the exit status of the process, once __main__ has exited
    args_checks,      \* args.checks of __main__
    checked,          \* history: the paths check() was called on by the caller's loop
    counts,           \* history: self.total_errors as read by the caller after each call
    before            \* history: the Runner's path and total_errors when the caller started

callerVars == << fzp_files, caller, cpc, fi, sum_errors, exit_status,
                 args_checks, checked, counts, before >>

vars == << path, verbose, total_errors, file, check_types, svg_check_types,
           pc, fzp_doc, ci, vi, si, svg_doc, raised, out, trace, run, first,
           layer_ids, loaded, callerVars >>

\* svg_doc before its first assignment in _run_svg_checkers.
Unbound == [ bound |-> FALSE, view |-> 0, cleared |-> FALSE ]

\* What a call of check() leaves for its caller to observe.
Result == [ total_errors |-> total_errors, out |-> out, raised |-> raised ]
NoResult == [ total_errors |-> 0, out |-> << >>, raised |-> "not_run" ]

Init ==
    /\ path = "part.fzp"
    /\ verbose \in BOOLEAN
    /\ total_errors = 0
    /\ file \in FzpFiles
    /\ check_types \in SeqsUpTo(FzpCheckNames, MaxChecks)
    /\ svg_check_types \in SeqsUpTo(SvgCheckNames, MaxChecks)
    /\ pc = "idle"
    /\ fzp_doc = NoDoc
    /\ ci = 0
    /\ vi = 0
    /\ si = 0
    /\ svg_doc = Unbound
    /\ raised = None
    /\ out = << >>
    /\ trace = << >>
    /\ run = "first"
    /\ first = NoResult
    /\ layer_ids = << >>
    /\ loaded = {}
    /\ fzp_files = << >>
    /\ caller = "test"
    /\ cpc = "calling"
    /\ fi = 0
    /\ sum_errors = 0
    /\ exit_status = 0
    /\ args_checks = << >>
    /\ checked = << >>
    /\ counts = << >>
    /\ before = [ path |-> path, total_errors |-> total_errors ]

Emit(cond, line) == IF cond THEN Append(out, line) ELSE out

\* ------------------------------------------------------------------ check()
\* check() entered without resetting the accumulator.
CheckEnter_NoReset ==
    /\ pc = "idle"
    /\ pc' = "parse"
    /\ UNCHANGED << path, verbose, total_errors, file, check_types,
                    svg_check_types, fzp_doc, ci, vi, si, svg_doc, raised, out,
                    trace, run, first,
                    layer_ids, loaded, callerVars >>

\* check(): entry; the accumulator is reset.
CheckEnter ==
    /\ pc = "idle"
    /\ total_errors' = 0
    /\ pc' = "parse"
    /\ UNCHANGED << path, verbose, file, check_types, svg_check_types, fzp_doc,
                    ci, vi, si, svg_doc, raised, out, trace, run, first,
                    layer_ids, loaded, callerVars >>

\* The parse failure printed but not counted.
ParseFzpFails_NotCounted ==
    /\ pc = "parse"
    /\ ~file.wellformed
    /\ out' = Append(out, Line("Invalid XML", "", "", "", 0))
    /\ trace' = Append(trace, Event("parse_fzp", "XMLSyntaxError", 0, 0))
    /\ pc' = "done"
    /\ UNCHANGED << path, verbose, total_errors, file, check_types,
                    svg_check_types, fzp_doc, ci, vi, si, svg_doc, raised, run, first,
                    layer_ids, loaded, callerVars >>

\* _parse_fzp() raises XMLSyntaxError: diagnostic, one error, return.
ParseFzpFails ==
    /\ pc = "parse"
    /\ ~file.wellformed
    /\ out' = Append(out, Line("Invalid XML", "", "", "", 0))
    /\ total_errors' = total_errors + 1
    /\ trace' = Append(trace, Event("parse_fzp", "XMLSyntaxError", 0, 0))
    /\ pc' = "done"
    /\ UNCHANGED << path, verbose, file, check_types, svg_check_types, fzp_doc,
                    ci, vi, si, svg_doc, raised, run, first,
                    layer_ids, loaded, callerVars >>

\* _parse_fzp() returns the document.
ParseFzp ==
    /\ pc = "parse"
    /\ file.wellformed
    /\ fzp_doc' = file
    /\ out' = Emit(verbose, Line("Scanning file", path, "", "", 0))
    /\ trace' = Append(trace, Event("parse_fzp", file.name, 0, 0))
    /\ ci' = 1
    /\ pc' = "fzp_rules"
    /\ loaded' = loaded \cup { DocHandle("fzp", path, 0) }
    /\ UNCHANGED << path, verbose, total_errors, file, check_types,
                    svg_check_types, vi, si, svg_doc, raised, run, first,
                    layer_ids, callerVars >>

\* The FZP rule loop counting one more than the rule returned.
RunFzpChecker_OffByOne ==
    /\ pc = "fzp_rules"
    /\ ci <= Len(check_types)
    /\ LET checker == _get_checker(check_types[ci], fzp_doc, path)
           errors == fzp_check(checker)
       IN  /\ checker.cls # ValueError
           /\ out' = Emit(verbose, Line("Running check", "", "", get_name(checker.cls), 0))
           /\ total_errors' = total_errors + errors + 1
           /\ trace' = Append(trace, RuleEvent("fzp_rule", checker.cls, 0, errors, checker.doc, ConstructorPath(checker)))
    /\ ci' = ci + 1
    /\ UNCHANGED << path, verbose, file, check_types, svg_check_types, pc,
                    fzp_doc, vi, si, svg_doc, raised, run, first,
                    layer_ids, loaded, callerVars >>

\* One iteration of `for check_type in check_types` with a registered name.
RunFzpChecker ==
    /\ pc = "fzp_rules"
    /\ ci <= Len(check_types)
    /\ LET checker == _get_checker(check_types[ci], fzp_doc, path)
           errors == fzp_check(checker)
       IN  /\ checker.cls # ValueError
           /\ out' = Emit(verbose, Line("Running check", "", "", get_name(checker.cls), 0))
           /\ total_errors' = total_errors + errors
           /\ trace' = Append(trace, RuleEvent("fzp_rule", checker.cls, 0, errors, checker.doc, ConstructorPath(checker)))
    /\ ci' = ci + 1
    /\ UNCHANGED << path, verbose, file, check_types, svg_check_types, pc,
                    fzp_doc, vi, si, svg_doc, raised, run, first,
                    layer_ids, loaded, callerVars >>

\* _get_checker finds no class of that name: ValueError leaves check().
UnknownFzpCheck ==
    /\ pc = "fzp_rules"
    /\ ci <= Len(check_types)
    /\ _get_checker(check_types[ci], fzp_doc, path).cls = ValueError
    /\ raised' = ValueError
    /\ pc' = "done"
    /\ UNCHANGED << path, verbose, total_errors, file, check_types,
                    svg_check_types, fzp_doc, ci, vi, si, svg_doc, out, trace, run, first,
                    layer_ids, loaded, callerVars >>

\* `if svg_check_types:` holds: _run_svg_checkers starts with
\* fzp_doc.xpath("//views")[0], an IndexError when there is no views element.
EnterSvgCheckers ==
    /\ pc = "fzp_rules"
    /\ ci > Len(check_types)
    /\ svg_check_types # << >>
    /\ svg_doc' = Unbound
    /\ IF fzp_doc.has_views
       THEN /\ vi' = 1
            /\ pc' = "views"
            /\ raised' = raised
       ELSE /\ vi' = vi
            /\ pc' = "done"
            /\ raised' = "IndexError"
    /\ UNCHANGED << path, verbose, total_errors, file, check_types,
                    svg_check_types, fzp_doc, ci, si, out, trace, run, first,
                    layer_ids, loaded, callerVars >>

\* The view loop entered although no SVG check was requested.
SkipSvgCheckers_WalksViews ==
    /\ pc = "fzp_rules"
    /\ ci > Len(check_types)
    /\ svg_check_types = << >>
    /\ fzp_doc.has_views
    /\ vi' = 1
    /\ pc' = "views"
    /\ UNCHANGED << path, verbose, total_errors, file, check_types,
                    svg_check_types, fzp_doc, ci, si, svg_doc, raised, out, trace,
                    run, first, layer_ids, loaded, callerVars >>

\* `if svg_check_types:` fails: straight to the report.
SkipSvgCheckers ==
    /\ pc = "fzp_rules"
    /\ ci > Len(check_types)
    /\ svg_check_types = << >>
    /\ pc' = "report"
    /\ UNCHANGED << path, verbose, total_errors, file, check_types,
                    svg_check_types, fzp_doc, ci, vi, si, svg_doc, raised, out, trace, run, first,
                    layer_ids, loaded, callerVars >>

\* The view the loop of _run_svg_checkers is at.
AtView == pc = "views" /\ vi <= Len(fzp_doc.views)
view == fzp_doc.views[vi]
svg_path == get_svg_path(path, view.image, view.tag)

\* view.tag == "defaultUnits": continue.
SkipDefaultUnits ==
    /\ AtView
    /\ IsPseudoView(view)
    /\ vi' = vi + 1
    /\ UNCHANGED << path, verbose, total_errors, file, check_types,
                    svg_check_types, pc, fzp_doc, ci, si, svg_doc, raised, out, trace, run, first,
                    layer_ids, loaded, callerVars >>

\* view.xpath("layers") is empty: the else branch prints a warning.
MissingLayers ==
    /\ AtView
    /\ ~IsPseudoView(view)
    /\ ~view.has_layers
    /\ out' = Append(out, Line("Warning: No 'layers' element found", path, view.tag, "", 0))
    /\ vi' = vi + 1
    /\ UNCHANGED << path, verbose, total_errors, file, check_types,
                    svg_check_types, pc, fzp_doc, ci, si, svg_doc, raised, trace, run, first,
                    layer_ids, loaded, callerVars >>

\* The layers block has no image: nothing more is done for the view.
NoImageAttribute ==
    /\ AtView
    /\ ~IsPseudoView(view)
    /\ view.has_layers
    /\ ~Truthy(view.image)
    /\ vi' = vi + 1
    /\ layer_ids' = collect_layer_ids(layer_ids, view.layer_elements)
    /\ UNCHANGED << path, verbose, total_errors, file, check_types,
                    svg_check_types, pc, fzp_doc, ci, si, svg_doc, raised, out, trace, run, first,
                    loaded, callerVars >>

\* The template placeholder reported like a missing asset.
SkipTemplate_Reported ==
    /\ AtView
    /\ ~IsPseudoView(view)
    /\ view.has_layers
    /\ Truthy(view.image)
    /\ svg_path = NoAsset
    /\ out' = Append(out, Line("Warning: SVG not found", path, view.tag, view.image, 0))
    /\ total_errors' = total_errors + 1
    /\ trace' = Append(trace, Event("get_svg_path", view.image, vi, 0))
    /\ vi' = vi + 1
    /\ layer_ids' = collect_layer_ids(layer_ids, view.layer_elements)
    /\ UNCHANGED << path, verbose, file, check_types, svg_check_types, pc,
                    fzp_doc, ci, si, svg_doc, raised, run, first, loaded, callerVars >>

\* get_svg_path returns None: continue (template SVGs are skipped).
SkipTemplate ==
    /\ AtView
    /\ ~IsPseudoView(view)
    /\ view.has_layers
    /\ Truthy(view.image)
    /\ svg_path = NoAsset
    /\ trace' = Append(trace, Event("get_svg_path", view.image, vi, 0))
    /\ vi' = vi + 1
    /\ layer_ids' = collect_layer_ids(layer_ids, view.layer_elements)
    /\ UNCHANGED << path, verbose, total_errors, file, check_types,
                    svg_check_types, pc, fzp_doc, ci, si, svg_doc, raised, out, run, first,
                    loaded, callerVars >>

\* The missing asset warned about but not counted.
MissingSvg_NotCounted ==
    /\ AtView
    /\ ~IsPseudoView(view)
    /\ view.has_layers
    /\ Truthy(view.image)
    /\ svg_path # NoAsset
    /\ ~isfile(svg_path)
    /\ out' = Append(out, Line("Warning: SVG not found", path, view.tag, svg_path.image, 0))
    /\ trace' = Append(trace, Event("get_svg_path", view.image, vi, 0))
    /\ vi' = vi + 1
    /\ layer_ids' = collect_layer_ids(layer_ids, view.layer_elements)
    /\ UNCHANGED << path, verbose, total_errors, file, check_types,
                    svg_check_types, pc, fzp_doc, ci, si, svg_doc, raised, run, first,
                    loaded, callerVars >>

\* os.path.isfile(svg_path) fails: warning and one error.
MissingSvg ==
    /\ AtView
    /\ ~IsPseudoView(view)
    /\ view.has_layers
    /\ Truthy(view.image)
    /\ svg_path # NoAsset
    /\ ~isfile(svg_path)
    /\ out' = Append(out, Line("Warning: SVG not found", path, view.tag, svg_path.image, 0))
    /\ total_errors' = total_errors + 1
    /\ trace' = Append(trace, Event("get_svg_path", view.image, vi, 0))
    /\ vi' = vi + 1
    /\ layer_ids' = collect_layer_ids(layer_ids, view.layer_elements)
    /\ UNCHANGED << path, verbose, file, check_types, svg_check_types, pc,
                    fzp_doc, ci, si, svg_doc, raised, run, first,
                    loaded, callerVars >>

\* etree.parse(svg_path) returns: svg_doc is bound and the rule loop starts.
LoadSvg ==
    /\ AtView
    /\ ~IsPseudoView(view)
    /\ view.has_layers
    /\ Truthy(view.image)
    /\ svg_path # NoAsset
    /\ isfile(svg_path)
    /\ svg_parses(svg_path)
    /\ svg_doc' = [ bound |-> TRUE, view |-> vi, cleared |-> FALSE ]
    /\ trace' = trace \o << Event("get_svg_path", view.image, vi, 0),
                            Event("parse_svg", view.image, vi, 0) >>
    /\ si' = 1
    /\ pc' = "svg_rules"
    /\ layer_ids' = collect_layer_ids(layer_ids, view.layer_elements)
    /\ loaded' = loaded \cup { DocHandle("svg", path, vi) }
    /\ UNCHANGED << path, verbose, total_errors, file, check_types,
                    svg_check_types, fzp_doc, ci, vi, raised, out, run, first,
                    callerVars >>

\* etree.parse(svg_path) raises XMLSyntaxError: the except clause prints and
\* counts one error, then the finally clause evaluates svg_doc.getroot() --
\* on the document of an earlier view, or, when svg_doc was never assigned,
\* raising UnboundLocalError.
LoadSvgFails ==
    /\ AtView
    /\ ~IsPseudoView(view)
    /\ view.has_layers
    /\ Truthy(view.image)
    /\ svg_path # NoAsset
    /\ isfile(svg_path)
    /\ ~svg_parses(svg_path)
    /\ out' = Append(out, Line("Invalid XML in SVG", "", "", "", 0))
    /\ total_errors' = total_errors + 1
    /\ trace' = trace \o << Event("get_svg_path", view.image, vi, 0),
                            Event("parse_svg", "XMLSyntaxError", vi, 0) >>
    /\ IF svg_doc.bound
       THEN /\ svg_doc' = [ svg_doc EXCEPT !.cleared = TRUE ]
            /\ vi' = vi + 1
            /\ pc' = pc
            /\ raised' = raised
       ELSE /\ svg_doc' = svg_doc
            /\ vi' = vi
            /\ pc' = "done"
            /\ raised' = "UnboundLocalError"
    /\ layer_ids' = collect_layer_ids(layer_ids, view.layer_elements)
    /\ loaded' = loaded \ { DocHandle("svg", path, svg_doc.view) }
    /\ UNCHANGED << path, verbose, file, check_types, svg_check_types, fzp_doc,
                    ci, si, run, first,
                    callerVars >>

\* One iteration of `for check_type in svg_check_types` with a registered name.
RunSvgChecker ==
    /\ pc = "svg_rules"
    /\ si <= Len(svg_check_types)
    /\ LET checker == _get_svg_checker(svg_check_types[si], svg_path, layer_ids)
           errors == svg_check(checker)
       IN  /\ checker.cls # ValueError
           /\ out' = Emit(verbose, Line("Running SVG check", svg_path.image, view.tag, get_name(checker.cls), 0))
           /\ total_errors' = total_errors + errors
           /\ trace' = Append(trace, RuleEvent("svg_rule", checker.cls, vi, errors, checker.doc.image, checker.layer_ids))
    /\ si' = si + 1
    /\ UNCHANGED << path, verbose, file, check_types, svg_check_types, pc,
                    fzp_doc, ci, vi, svg_doc, raised, run, first,
                    layer_ids, loaded, callerVars >>

\* _get_svg_checker finds no class of that name: the finally clause clears
\* svg_doc and ValueError leaves check().
UnknownSvgCheck ==
    /\ pc = "svg_rules"
    /\ si <= Len(svg_check_types)
    /\ _get_svg_checker(svg_check_types[si], svg_path, layer_ids).cls = ValueError
    /\ svg_doc' = [ svg_doc EXCEPT !.cleared = TRUE ]
    /\ raised' = ValueError
    /\ pc' = "done"
    /\ loaded' = loaded \ { DocHandle("svg", path, svg_doc.view) }
    /\ UNCHANGED << path, verbose, total_errors, file, check_types,
                    svg_check_types, fzp_doc, ci, vi, si, out, trace, run, first,
                    layer_ids, callerVars >>

\* The rule loop ends without the finally clause clearing svg_doc.
SvgCheckersDone_NoClear ==
    /\ pc = "svg_rules"
    /\ si > Len(svg_check_types)
    /\ vi' = vi + 1
    /\ pc' = "views"
    /\ UNCHANGED << path, verbose, total_errors, file, check_types,
                    svg_check_types, fzp_doc, ci, si, svg_doc, raised, out, trace,
                    run, first, layer_ids, loaded, callerVars >>

\* The rule loop ends: the finally clause clears svg_doc; next view.
SvgCheckersDone ==
    /\ pc = "svg_rules"
    /\ si > Len(svg_check_types)
    /\ svg_doc' = [ svg_doc EXCEPT !.cleared = TRUE ]
    /\ vi' = vi + 1
    /\ pc' = "views"
    /\ loaded' = loaded \ { DocHandle("svg", path, svg_doc.view) }
    /\ UNCHANGED << path, verbose, total_errors, file, check_types,
                    svg_check_types, fzp_doc, ci, si, raised, out, trace, run, first,
                    layer_ids, callerVars >>

\* The view loop ends: _run_svg_checkers returns.
ViewsDone ==
    /\ pc = "views"
    /\ vi > Len(fzp_doc.views)
    /\ pc' = "report"
    /\ UNCHANGED << path, verbose, total_errors, file, check_types,
                    svg_check_types, fzp_doc, ci, vi, si, svg_doc, raised, out, trace, run, first,
                    layer_ids, loaded, callerVars >>

\* The total is printed if verbose or positive; the FZP tree is cleared;
\* check() returns.
Report ==
    /\ pc = "report"
    /\ out' = Emit(verbose \/ total_errors > 0, Line("Total errors", path, "", "", total_errors))
    /\ trace' = Append(trace, Event("report", "", 0, total_errors))
    /\ pc' = "done"
    /\ loaded' = loaded \ { DocHandle("fzp", path, 0) }
    /\ UNCHANGED << path, verbose, total_errors, file, check_types,
                    svg_check_types, fzp_doc, ci, vi, si, svg_doc, raised, run, first,
                    layer_ids, callerVars >>

Next ==
    \/ CheckEnter
    \/ ParseFzpFails
    \/ ParseFzp
    \/ RunFzpChecker
    \/ UnknownFzpCheck
    \/ EnterSvgCheckers
    \/ SkipSvgCheckers
    \/ SkipDefaultUnits
    \/ MissingLayers
    \/ NoImageAttribute
    \/ SkipTemplate
    \/ MissingSvg
    \/ LoadSvg
    \/ LoadSvgFails
    \/ RunSvgChecker
    \/ UnknownSvgCheck
    \/ SvgCheckersDone
    \/ ViewsDone
    \/ Report

Spec == Init /\ [][Next]_vars

\* check() is called a second time on the same Runner, with the same
\* arguments and the files unchanged: a new call frame, a new capture of the
\* output; the Runner's fields stay as the first call left them.
CheckAgain ==
    /\ pc = "done"
    /\ run = "first"
    /\ first' = Result
    /\ run' = "second"
    /\ pc' = "idle"
    /\ fzp_doc' = NoDoc
    /\ ci' = 0
    /\ vi' = 0
    /\ si' = 0
    /\ svg_doc' = Unbound
    /\ raised' = None
    /\ out' = << >>
    /\ trace' = << >>
    /\ layer_ids' = << >>
    /\ UNCHANGED << path, verbose, total_errors, file, check_types, svg_check_types,
                    loaded, callerVars >>

NextTwice == Next \/ CheckAgain

SpecTwice == Init /\ [][NextTwice]_vars

\* ------------------------------------------------------------ the callers
\* search_and_check_fzp_files and the loop of __main__ call check() once per
\* file of fzp_files.
MaxFiles == 2

\* The paths of the discovered files, in the order of the loop.
FileNames == << "a.fzp", "b.fzp", "c.fzp", "d.fzp" >>

View(image) ==
    [ tag |-> "breadboard", has_layers |-> TRUE, image |-> image,
      layer_elements |-> SomeLayers ]
NoLayersView(tag) ==
    [ tag |-> tag, has_layers |-> FALSE, image |-> NoImage, layer_elements |-> << >> ]
Doc(name, has_views, views) ==
    [ name |-> name, wellformed |-> TRUE, has_views |-> has_views, views |-> views ]

\* The files a discovery finds: a malformed one; one with a violation and
\* views of every kind that loads nothing; one with two loadable assets; one
\* with a malformed asset after a loadable one; one whose first asset is
\* malformed; one without a views element; one with 256 violations.
BatchDocs ==
    { MalformedDoc,
      Doc("dirty.fzp", TRUE, << NoLayersView("defaultUnits"), NoLayersView("breadboard"),
                                View(NoImage), View("template.svg"), View("gone.svg") >>),
      Doc("clean.fzp", TRUE, << View("clean.svg"), View("dirty.svg") >>),
      Doc("dirty.fzp", TRUE, << View("dirty.svg"), View("bad.svg") >>),
      Doc("clean.fzp", TRUE, << View("bad.svg") >>),
      Doc("clean.fzp", FALSE, << >>),
      Doc("flood.fzp", TRUE, << >>) }

\* The lists search_and_check_fzp_files is called with.
SearchCheckLists == { << >>, << "connector_terminal" >>, << "no_such_check" >> }
SearchSvgCheckLists == { << >>, << "font_size" >>, << "no_such_check" >> }

\* -c/--checks as argparse accepts it: "all" (the default), registered names,
\* or no name at all.
ArgsChecks ==
    { << "all" >>, << >>, << "connector_terminal" >>, << "font_size" >>,
      << "font_size", "connector_terminal" >> }

\* [checker.get_name() for checker in AVAILABLE_CHECKERS]
Names(registry) == [ k \in DOMAIN registry |-> get_name(registry[k]) ]
InSeq(x, s) == \E k \in DOMAIN s : s[k] = x

\* The status the parent process observes for exit(code): its low 8 bits.
ExitStatus(code) == code % 256

\* A Runner, new or left behind by an earlier check(), on which
\* search_and_check_fzp_files is called; or __main__ started, with its
\* Runner constructed on the path None.
InitBatch ==
    /\ caller \in {"search", "main"}
    /\ verbose \in BOOLEAN
    /\ fzp_files \in SeqsUpTo(BatchDocs, MaxFiles)
    /\ IF caller = "search"
       THEN /\ path = "part.fzp"
            /\ total_errors \in {0, 3}
            /\ check_types \in SearchCheckLists
            /\ svg_check_types \in SearchSvgCheckLists
            /\ args_checks = << >>
       ELSE /\ path = None
            /\ total_errors = 0
            /\ check_types = << >>
            /\ svg_check_types = << >>
            /\ args_checks \in ArgsChecks
    /\ file = NoDoc
    /\ pc = "off"
    /\ fzp_doc = NoDoc
    /\ ci = 0
    /\ vi = 0
    /\ si = 0
    /\ svg_doc = Unbound
    /\ raised = None
    /\ out = << >>
    /\ trace = << >>
    /\ run = "first"
    /\ first = NoResult
    /\ layer_ids = << >>
    /\ loaded = {}
    /\ cpc = "start"
    /\ fi = 0
    /\ sum_errors = 0
    /\ exit_status = 0
    /\ checked = << >>
    /\ counts = << >>
    /\ before = [ path |-> path, total_errors |-> total_errors ]

\* search_and_check_fzp_files: errors = 0 and the discovery.
SearchStart ==
    /\ caller = "search"
    /\ cpc = "start"
    /\ sum_errors' = 0
    /\ fi' = 1
    /\ cpc' = "loop"
    /\ UNCHANGED << path, verbose, total_errors, file, check_types, svg_check_types,
                    pc, fzp_doc, ci, vi, si, svg_doc, raised, out, trace, run, first,
                    layer_ids, loaded, fzp_files, caller, exit_status, args_checks,
                    checked, counts, before >>

\* check() called without self.path being set to the file.
BatchCall_PathUnset ==
    /\ cpc = "loop"
    /\ fi <= Len(fzp_files)
    /\ file' = fzp_files[fi]
    /\ checked' = Append(checked, path)
    /\ cpc' = "in_check"
    /\ pc' = "idle"
    /\ fzp_doc' = NoDoc
    /\ ci' = 0
    /\ vi' = 0
    /\ si' = 0
    /\ svg_doc' = Unbound
    /\ raised' = None
    /\ trace' = << >>
    /\ layer_ids' = << >>
    /\ UNCHANGED << path, verbose, total_errors, check_types, svg_check_types, out,
                    run, first, loaded, fzp_files, caller, fi, sum_errors,
                    exit_status, args_checks, counts, before >>

\* The loop body of both callers: self.path = fzp_file; self.check(...).
\* A new call frame of check() starts.
BatchCall ==
    /\ cpc = "loop"
    /\ fi <= Len(fzp_files)
    /\ path' = FileNames[fi]
    /\ file' = fzp_files[fi]
    /\ checked' = Append(checked, FileNames[fi])
    /\ cpc' = "in_check"
    /\ pc' = "idle"
    /\ fzp_doc' = NoDoc
    /\ ci' = 0
    /\ vi' = 0
    /\ si' = 0
    /\ svg_doc' = Unbound
    /\ raised' = None
    /\ trace' = << >>
    /\ layer_ids' = << >>
    /\ UNCHANGED << verbose, total_errors, check_types, svg_check_types, out,
                    run, first, loaded, fzp_files, caller, fi, sum_errors,
                    exit_status, args_checks, counts, before >>

\* The caller's sum overwritten by the file's count.
BatchAdd_Assign ==
    /\ cpc = "in_check"
    /\ pc = "done"
    /\ raised = None
    /\ sum_errors' = total_errors
    /\ counts' = Append(counts, total_errors)
    /\ fi' = fi + 1
    /\ cpc' = "loop"
    /\ pc' = "off"
    /\ UNCHANGED << path, verbose, total_errors, file, check_types, svg_check_types,
                    fzp_doc, ci, vi, si, svg_doc, raised, out, trace, run, first,
                    layer_ids, loaded, fzp_files, caller, exit_status, args_checks,
                    checked, before >>

\* check() has returned: errors += self.total_errors, and on to the next file.
BatchAdd ==
    /\ cpc = "in_check"
    /\ pc = "done"
    /\ raised = None
    /\ sum_errors' = sum_errors + total_errors
    /\ counts' = Append(counts, total_errors)
    /\ fi' = fi + 1
    /\ cpc' = "loop"
    /\ pc' = "off"
    /\ UNCHANGED << path, verbose, total_errors, file, check_types, svg_check_types,
                    fzp_doc, ci, vi, si, svg_doc, raised, out, trace, run, first,
                    layer_ids, loaded, fzp_files, caller, exit_status, args_checks,
                    checked, before >>

\* An exception has left check(): neither loop catches it, so it leaves the
\* caller too. Under __main__ only ValueError is caught, which check() cannot
\* raise there; the interpreter ends with status 1.
BatchAbort ==
    /\ cpc = "in_check"
    /\ pc = "done"
    /\ raised # None
    /\ cpc' = "aborted"
    /\ pc' = "off"
    /\ exit_status' = IF caller = "main" THEN 1 ELSE exit_status
    /\ UNCHANGED << path, verbose, total_errors, file, check_types, svg_check_types,
                    fzp_doc, ci, vi, si, svg_doc, raised, out, trace, run, first,
                    layer_ids, loaded, fzp_files, caller, fi, sum_errors,
                    args_checks, checked, counts, before >>

\* search_and_check_fzp_files: return errors.
SearchReturn ==
    /\ caller = "search"
    /\ cpc = "loop"
    /\ fi > Len(fzp_files)
    /\ cpc' = "returned"
    /\ UNCHANGED << path, verbose, total_errors, file, check_types, svg_check_types,
                    pc, fzp_doc, ci, vi, si, svg_doc, raised, out, trace, run, first,
                    layer_ids, loaded, fzp_files, caller, fi, sum_errors,
                    exit_status, args_checks, checked, counts, before >>
\* __main__: "all" stands for every registered name; the requested names are
\* split by registry, in the requested order.
MainSelect ==
    /\ caller = "main"
    /\ cpc = "start"
    /\ LET fzp_checks == Names(AVAILABLE_CHECKERS)
           svg_checks == Names(SVG_AVAILABLE_CHECKERS)
           checks == IF args_checks = << "all" >> THEN fzp_checks \o svg_checks
                     ELSE args_checks
       IN  /\ check_types' = SelectSeq(checks, LAMBDA c : InSeq(c, fzp_checks))
           /\ svg_check_types' = SelectSeq(checks, LAMBDA c : InSeq(c, svg_checks))
    /\ cpc' = "selected"
    /\ UNCHANGED << path, verbose, total_errors, file, pc, fzp_doc, ci, vi, si,
                    svg_doc, raised, out, trace, run, first, layer_ids, loaded,
                    fzp_files, caller, fi, sum_errors, exit_status, args_checks,
                    checked, counts, before >>

\* __main__: no valid check name is left; ValueError is raised, caught,
\* printed with the usage, and the process exits with exit(-1).
MainNoChecks ==
    /\ caller = "main"
    /\ cpc = "selected"
    /\ check_types = << >>
    /\ svg_check_types = << >>
    /\ out' = Append(out, Line("No valid check types specified.", "", "", "", 0))
    /\ exit_status' = ExitStatus(-1)
    /\ cpc' = "exited"
    /\ UNCHANGED << path, verbose, total_errors, file, check_types, svg_check_types,
                    pc, fzp_doc, ci, vi, si, svg_doc, raised, trace, run, first,
                    layer_ids, loaded, fzp_files, caller, fi, sum_errors,
                    args_checks, checked, counts, before >>

\* __main__: total_errors = 0, the Runner, the files to check.
MainStart ==
    /\ caller = "main"
    /\ cpc = "selected"
    /\ ~(check_types = << >> /\ svg_check_types = << >>)
    /\ sum_errors' = 0
    /\ out' = Emit(verbose, Line("Checking FZP files", "", "", "", Len(fzp_files)))
    /\ fi' = 1
    /\ cpc' = "loop"
    /\ UNCHANGED << path, verbose, total_errors, file, check_types, svg_check_types,
                    pc, fzp_doc, ci, vi, si, svg_doc, raised, trace, run, first,
                    layer_ids, loaded, fzp_files, caller, exit_status, args_checks,
                    checked, counts, before >>

\* __main__ after the loop: the total is printed and passed to exit() if
\* verbose or positive; else the script ends, with status 0.
MainExit ==
    /\ caller = "main"
    /\ cpc = "loop"
    /\ fi > Len(fzp_files)
    /\ out' = Emit(verbose \/ sum_errors > 0,
                   Line("Total errors (all files)", "", "", "", sum_errors))
    /\ exit_status' = IF verbose \/ sum_errors > 0 THEN ExitStatus(sum_errors) ELSE 0
    /\ cpc' = "exited"
    /\ UNCHANGED << path, verbose, total_errors, file, check_types, svg_check_types,
                    pc, fzp_doc, ci, vi, si, svg_doc, raised, trace, run, first,
                    layer_ids, loaded, fzp_files, caller, fi, sum_errors,
                    args_checks, checked, counts, before >>

NextBatch ==
    \/ Next
    \/ SearchStart
    \/ BatchCall
    \/ BatchAdd
    \/ BatchAbort
    \/ SearchReturn
    \/ MainSelect
    \/ MainNoChecks
    \/ MainStart
    \/ MainExit

SpecBatch == InitBatch /\ [][NextBatch]_vars

\* ------------------------------------------------- the layer ids of a view
\* check() on documents of two views whose layers blocks declare any layer
\* entries: with a layerId, with an empty one, without one.
MaxLayers == 2

LayerElements == SeqsUpTo({ "copper0", "silkscreen", "", NoLayerId }, MaxLayers)

LayeredViews(images) ==
    [ tag : {"breadboard"}, has_layers : {TRUE}, image : images,
      layer_elements : LayerElements ]

LayeredDocs ==
    { Doc("dirty.fzp", TRUE, << v, w >>) :
        v \in LayeredViews({"template.svg", "gone.svg", "clean.svg"}),
        w \in LayeredViews({"clean.svg", "dirty.svg"}) }

InitLayers ==
    /\ path = "part.fzp"
    /\ verbose = FALSE
    /\ total_errors = 0
    /\ file \in LayeredDocs
    /\ check_types = << >>
    /\ svg_check_types = << "font_size", "ids" >>
    /\ pc = "idle"
    /\ fzp_doc = NoDoc
    /\ ci = 0
    /\ vi = 0
    /\ si = 0
    /\ svg_doc = Unbound
    /\ raised = None
    /\ out = << >>
    /\ trace = << >>
    /\ run = "first"
    /\ first = NoResult
    /\ layer_ids = << >>
    /\ loaded = {}
    /\ fzp_files = << >>
    /\ caller = "test"
    /\ cpc = "calling"
    /\ fi = 0
    /\ sum_errors = 0
    /\ exit_status = 0
    /\ args_checks = << >>
    /\ checked = << >>
    /\ counts = << >>
    /\ before = [ path |-> path, total_errors |-> total_errors ]

\* The steps of check() these documents and lists lead through.
NextLayers ==
    \/ CheckEnter
    \/ ParseFzp
    \/ EnterSvgCheckers
    \/ SkipTemplate
    \/ MissingSvg
    \/ LoadSvg
    \/ RunSvgChecker
    \/ SvgCheckersDone
    \/ ViewsDone
    \/ Report

SpecLayers == InitLayers /\ [][NextLayers]_vars

\* ------------------------------------------------------ the order of steps
\* check() with registered names only, on well-formed documents whose views
\* have an asset that loads, an asset that is missing, or no layers block.
OrderViews ==
    { View("clean.svg"), View("dirty.svg"), View("gone.svg"), NoLayersView("breadboard") }

InitOrder ==
    /\ path = "part.fzp"
    /\ verbose \in BOOLEAN
    /\ total_errors = 0
    /\ file \in { Doc("dirty.fzp", TRUE, views) : views \in SeqsUpTo(OrderViews, MaxViews) }
    /\ check_types \in SeqsUpTo({ "missing_tags", "connector_terminal" }, MaxChecks)
    /\ svg_check_types \in SeqsUpTo({ "font_size", "ids" }, MaxChecks)
    /\ pc = "idle"
    /\ fzp_doc = NoDoc
    /\ ci = 0
    /\ vi = 0
    /\ si = 0
    /\ svg_doc = Unbound
    /\ raised = None
    /\ out = << >>
    /\ trace = << >>
    /\ run = "first"
    /\ first = NoResult
    /\ layer_ids = << >>
    /\ loaded = {}
    /\ fzp_files = << >>
    /\ caller = "test"
    /\ cpc = "calling"
    /\ fi = 0
    /\ sum_errors = 0
    /\ exit_status = 0
    /\ args_checks = << >>
    /\ checked = << >>
    /\ counts = << >>
    /\ before = [ path |-> path, total_errors |-> total_errors ]

\* The steps of check() these documents and lists lead through.
NextOrder ==
    \/ CheckEnter
    \/ ParseFzp
    \/ RunFzpChecker
    \/ EnterSvgCheckers
    \/ SkipSvgCheckers
    \/ MissingLayers
    \/ MissingSvg
    \/ LoadSvg
    \/ RunSvgChecker
    \/ SvgCheckersDone
    \/ ViewsDone
    \/ Report

SpecOrder == InitOrder /\ [][NextOrder]_vars

\* ------------------------------------------------------------ observations
Done == pc = "done"
Returned == pc = "done" /\ raised = None

\* Every requested name is the name of a class of the registry.
Registered(registry, names) ==
    \A k \in DOMAIN names : \E m \in DOMAIN registry : get_name(registry[m]) = names[k]
AllRegistered ==
    /\ Registered(AVAILABLE_CHECKERS, check_types)
    /\ Registered(SVG_AVAILABLE_CHECKERS, svg_check_types)

Printed(text) == \E k \in DOMAIN out : out[k].text = text
Called(op) == \E k \in DOMAIN trace : trace[k].op = op
RuleEvents == { k \in DOMAIN trace : trace[k].op \in {"fzp_rule", "svg_rule"} }

RECURSIVE SumN(_, _)
SumN(events, k) ==
    IF k = 0 THEN 0
    ELSE SumN(events, k - 1)
         + (IF events[k].op \in {"fzp_rule", "svg_rule"} THEN events[k].n ELSE 0)

\* (d) the sum of the counts the rules returned in this call.
RuleSum == SumN(trace, Len(trace))

\* The views of the document on disk, by what the view loop has to do with
\* them (read off the file, not off the run).
RealViews == { k \in DOMAIN file.views : file.views[k].tag # "defaultUnits" }
AssetOf(k) == get_svg_path(path, file.views[k].image, file.views[k].tag)
LayerlessViews == { k \in RealViews : ~file.views[k].has_layers }
AssetViews ==
    { k \in RealViews : /\ file.views[k].has_layers
                        /\ file.views[k].image # NoImage
                        /\ AssetOf(k) # NoAsset }
MissingAssetViews == { k \in AssetViews : ~isfile(AssetOf(k)) }
MalformedSvgViews == { k \in AssetViews : isfile(AssetOf(k)) /\ ~svg_parses(AssetOf(k)) }
LoadableViews == { k \in AssetViews : isfile(AssetOf(k)) /\ svg_parses(AssetOf(k)) }

\* The view loop runs in this call.
ViewsWalked == file.wellformed /\ svg_check_types # << >>

\* ------------------------------------------------------------------ claims

\* C1: after a call of check() that returns, total_errors is one per
\* unparseable document (FZP or SVG), one per missing SVG asset, one per
\* declared view (other than defaultUnits) without a layers element, plus the
\* counts returned by the rules that ran.
C1_TotalIsSumOfParts ==
    Returned =>
        total_errors =
            (IF ~file.wellformed THEN 1 ELSE 0)
            + (IF ViewsWalked
               THEN Cardinality(MalformedSvgViews) + Cardinality(MissingAssetViews)
                    + Cardinality(LayerlessViews)
               ELSE 0)
            + RuleSum

\* C2: on a malformed FZP, whatever checks are requested, check() returns
\* normally with total_errors = 1, 'Invalid XML' printed, and no rule, view
\* resolution or SVG load run.
C2_MalformedFzpCountsOne ==
    ~file.wellformed =>
        /\ pc \in {"idle", "parse", "done"}
        /\ raised = None
        /\ Done => /\ total_errors = 1
                   /\ Printed("Invalid XML")
                   /\ \A k \in DOMAIN trace : trace[k].op = "parse_fzp"

C2_Witness ==
    /\ Done
    /\ ~file.wellformed
    /\ Len(check_types) = MaxChecks
    /\ ~Registered(AVAILABLE_CHECKERS, check_types)
    /\ Len(svg_check_types) = MaxChecks
    /\ total_errors = 1

\* C3: on a well-formed FZP, with registered FZP checks that all return 0
\* and no SVG checks, check() ends with total_errors = 0 and prints no
\* 'Invalid XML' text.
C3_CleanFzpCountsZero ==
    ( /\ Done
      /\ file.wellformed
      /\ svg_check_types = << >>
      /\ Registered(AVAILABLE_CHECKERS, check_types)
      /\ \A k \in RuleEvents : trace[k].n = 0 )
    => /\ raised = None
       /\ total_errors = 0
       /\ Cardinality(RuleEvents) = Len(check_types)
       /\ ~Printed("Invalid XML")
       /\ ~Printed("Invalid XML in SVG")

C3_Witness ==
    /\ Done
    /\ file.wellformed
    /\ file.views # << >>
    /\ svg_check_types = << >>
    /\ Len(check_types) = MaxChecks
    /\ Cardinality(RuleEvents) = MaxChecks
    /\ \A k \in RuleEvents : trace[k].n = 0
    /\ total_errors = 0

\* C4 as stated: on a well-formed FZP, a requested name (FZP or SVG) that is
\* not registered never lets check() complete normally.
C4_UnknownNeverCompletes ==
    (Done /\ file.wellformed /\ ~AllRegistered) => raised # None

\* C4 amended: an unregistered FZP name always ends check() in ValueError;
\* with the FZP names registered, an unregistered SVG name ends it in
\* ValueError exactly when a well-formed SVG asset was loaded in the call;
\* and ValueError leaves check() for no other reason.
SvgLoaded == \E k \in DOMAIN trace : trace[k].op = "parse_svg" /\ trace[k].name # "XMLSyntaxError"

C4_UnknownCheckRaises ==
    (Done /\ file.wellformed) =>
        /\ ~Registered(AVAILABLE_CHECKERS, check_types) => raised = ValueError
        /\ ( /\ Registered(AVAILABLE_CHECKERS, check_types)
             /\ ~Registered(SVG_AVAILABLE_CHECKERS, svg_check_types) )
           => (raised = ValueError <=> SvgLoaded)
        /\ raised = ValueError => ~AllRegistered

C4_Witness ==
    /\ Done
    /\ Registered(AVAILABLE_CHECKERS, check_types)
    /\ check_types # << >>
    /\ ~Registered(SVG_AVAILABLE_CHECKERS, svg_check_types)
    /\ raised = ValueError
    /\ Called("svg_rule")

\* The loop is at a real view whose asset is on disk and malformed.
AtMalformedSvg ==
    /\ AtView
    /\ view.tag # "defaultUnits"
    /\ view.has_layers
    /\ view.image # NoImage
    /\ svg_path # NoAsset
    /\ isfile(svg_path)
    /\ ~svg_parses(svg_path)

\* C5: a malformed SVG asset adds exactly 1, prints 'Invalid XML in SVG',
\* and the loop goes on with the next view, also when it is the first SVG
\* loaded in the call.
C5_MalformedSvgContained ==
    [][ AtMalformedSvg =>
          /\ total_errors' = total_errors + 1
          /\ out' = Append(out, Line("Invalid XML in SVG", "", "", "", 0))
          /\ pc' = "views"
          /\ vi' = vi + 1
          /\ raised' = None ]_vars

\* The loop is at a real view without a layers element.
AtLayerlessView ==
    /\ AtView
    /\ view.tag # "defaultUnits"
    /\ ~view.has_layers

\* C6: a view (other than defaultUnits) without a layers element adds
\* exactly 1 to total_errors and prints the missing-layers warning; no asset
\* is resolved or loaded for it and the loop goes on with the next view.
C6_MissingLayersCountsOne ==
    [][ AtLayerlessView =>
          /\ total_errors' = total_errors + 1
          /\ out' = Append(out, Line("Warning: No 'layers' element found", path, view.tag, "", 0))
          /\ trace' = trace
          /\ pc' = "views"
          /\ vi' = vi + 1 ]_vars

\* The loop is at a real view whose image resolves to a path that is no file.
AtMissingAsset ==
    /\ AtView
    /\ view.tag # "defaultUnits"
    /\ view.has_layers
    /\ view.image # NoImage
    /\ svg_path # NoAsset
    /\ ~isfile(svg_path)

\* C7: a view whose image resolves to a path that is not a file adds exactly
\* 1 to total_errors and prints a warning naming the SVG, the view and the
\* FZP file; no SVG is parsed and no SVG rule runs for it; the loop goes on
\* with the next view.
C7_MissingAssetCountsOne ==
    [][ AtMissingAsset =>
          /\ total_errors' = total_errors + 1
          /\ out' = Append(out, Line("Warning: SVG not found", path, view.tag, view.image, 0))
          /\ trace' = Append(trace, Event("get_svg_path", view.image, vi, 0))
          /\ svg_doc' = svg_doc
          /\ raised' = None
          /\ pc' = "views"
          /\ vi' = vi + 1 ]_vars

\* A missing asset in the first view, and the second view's SVG checked
\* after it.
C7_Witness ==
    /\ Returned
    /\ Len(file.views) >= 2
    /\ 1 \in MissingAssetViews
    /\ 2 \in LoadableViews
    /\ Printed("Warning: SVG not found")
    /\ \E k \in DOMAIN trace : trace[k].op = "svg_rule" /\ trace[k].view = 2
    /\ total_errors = 1 + RuleSum

\* C8: on a well-formed FZP, with registered check names only, check()
\* returns normally whatever the document declares.
C8_AlwaysReturnsNormally ==
    (Done /\ file.wellformed /\ AllRegistered) => raised = None

\* C9: the view loop skips defaultUnits without a warning, an asset
\* resolution, an SVG load or a change of total_errors, whatever the element
\* holds.
C9_DefaultUnitsSkipped ==
    [][ (AtView /\ view.tag = "defaultUnits") =>
          /\ UNCHANGED << total_errors, out, trace, svg_doc, raised,
                    layer_ids, loaded, callerVars >>
          /\ pc' = "views"
          /\ vi' = vi + 1 ]_vars

\* A defaultUnits element with a layers block and an image that is not on
\* disk has been passed, and nothing was printed or counted.
C9_Witness ==
    /\ Returned
    /\ ~verbose
    /\ \E k \in DOMAIN file.views :
          /\ file.views[k].tag = "defaultUnits"
          /\ file.views[k].has_layers
    /\ \E k \in DOMAIN file.views :
          /\ file.views[k].tag = "defaultUnits"
          /\ ~file.views[k].has_layers
    /\ svg_check_types # << >>
    /\ total_errors = 0
    /\ out = << >>

\* C10: a second call of check() on the same Runner, with the same
\* arguments and unchanged files, ends as the first did: the same
\* total_errors, the same output, the same way of leaving.
C10_SecondCallSameResult ==
    (run = "second" /\ Done) => Result = first

C10_Witness ==
    /\ run = "second"
    /\ Returned
    /\ total_errors > 1
    /\ first.total_errors = total_errors
    /\ Len(out) > 1

\* C12: with no SVG check requested the view loop never runs: no warning, no
\* asset resolution, no SVG load, and total_errors is the sum of the counts
\* the FZP rules returned, whatever the views declare.
C12_NoSvgChecksNoViewLoop ==
    (file.wellformed /\ svg_check_types = << >>) =>
        /\ pc \notin {"views", "svg_rules"}
        /\ \A k \in DOMAIN trace : trace[k].op \in {"parse_fzp", "fzp_rule", "report"}
        /\ ~Printed("Warning: No 'layers' element found")
        /\ ~Printed("Warning: SVG not found")
        /\ ~Printed("Invalid XML in SVG")
        /\ total_errors = RuleSum
        /\ (Done /\ Registered(AVAILABLE_CHECKERS, check_types)) =>
              /\ raised = None
              /\ Cardinality(RuleEvents) = Len(check_types)
              /\ trace[Len(trace)].op = "report"

C12_Witness ==
    /\ Returned
    /\ svg_check_types = << >>
    /\ LayerlessViews # {}
    /\ MissingAssetViews # {}
    /\ Len(check_types) = MaxChecks
    /\ total_errors = RuleSum
    /\ total_errors > 0

\* The 'Total errors' lines printed by the call.
TotalLines == { k \in DOMAIN out : out[k].text = "Total errors" }

\* C13: in a call in which the FZP parses and no lookup fails, the 'Total
\* errors' line is printed exactly once, last, if and only if verbose is on
\* or total_errors > 0; when the FZP does not parse, it is not printed.
C13_TotalLineIffVerboseOrErrors ==
    Done =>
        /\ (file.wellformed /\ raised # ValueError) =>
              /\ Cardinality(TotalLines) = (IF verbose \/ total_errors > 0 THEN 1 ELSE 0)
              /\ TotalLines # {} => Len(out) \in TotalLines
        /\ ~file.wellformed => TotalLines = {}

\* The loop is at a real view whose image the path resolver maps to no asset.
AtTemplateView ==
    /\ AtView
    /\ view.tag # "defaultUnits"
    /\ view.has_layers
    /\ view.image # NoImage
    /\ get_svg_path(path, view.image, view.tag) = NoAsset

\* The loop is at a real view whose layers block has no image attribute.
AtImagelessView ==
    /\ AtView
    /\ view.tag # "defaultUnits"
    /\ view.has_layers
    /\ view.image = NoImage

\* C17: a view whose image resolves to a template placeholder is skipped
\* without a diagnostic, a count, an SVG load or a rule lookup, and the loop
\* goes on; so is a view whose layers block has no image attribute.
C17_TemplateSkippedSilently ==
    [][ /\ AtTemplateView =>
              /\ UNCHANGED << total_errors, out, svg_doc, raised, loaded >>
              /\ trace' = Append(trace, Event("get_svg_path", view.image, vi, 0))
              /\ pc' = "views"
              /\ vi' = vi + 1
        /\ AtImagelessView =>
              /\ UNCHANGED << total_errors, out, trace, svg_doc, raised, loaded >>
              /\ pc' = "views"
              /\ vi' = vi + 1 ]_vars

\* A template view and an image-less view passed with an unregistered SVG
\* name requested: nothing printed, nothing counted, no lookup made.
C17_Witness ==
    /\ Returned
    /\ ~verbose
    /\ ~Registered(SVG_AVAILABLE_CHECKERS, svg_check_types)
    /\ \E k \in RealViews : file.views[k].image = "template.svg"
    /\ \E k \in RealViews : file.views[k].has_layers /\ file.views[k].image = NoImage
    /\ total_errors = 0
    /\ out = << >>

\* The document trees parsed and not yet cleared, by kind.
FzpHandles == { h \in loaded : h.kind = "fzp" }
SvgHandles == { h \in loaded : h.kind = "svg" }

\* C11: at every point of a batch run at most one FZP tree and at most one
\* SVG tree are loaded and not cleared; an SVG tree is cleared when its rule
\* loop is left, normally or by a failed lookup, before the next view; the
\* FZP tree is cleared before the caller goes on to the next file.
C11_OneFzpOneSvgLoaded ==
    /\ Cardinality(FzpHandles) <= 1
    /\ Cardinality(SvgHandles) <= 1
    /\ pc # "svg_rules" => SvgHandles = {}
    /\ (pc \in {"idle", "parse"} \/ cpc \in {"loop", "returned", "exited"}) => loaded = {}

\* The second asset of the second file is loaded: one FZP and one SVG tree.
C11_Witness ==
    /\ cpc = "in_check"
    /\ fi = 2
    /\ pc = "svg_rules"
    /\ vi = 2
    /\ svg_doc.view = 2
    /\ Cardinality(LoadableViews) = 2
    /\ Cardinality(loaded) = 2

RECURSIVE SumSeq(_)
SumSeq(s) == IF s = << >> THEN 0 ELSE s[1] + SumSeq(Tail(s))

\* C14: with every requested name registered, search_and_check_fzp_files
\* calls check() once on each discovered file, in order, and returns the sum
\* of the counts the calls left; a malformed FZP counts exactly 1 and the
\* files after it are checked.
C14_BatchChecksEveryFile ==
    (caller = "search" /\ cpc \in {"returned", "aborted"} /\ AllRegistered) =>
        /\ cpc = "returned"
        /\ checked = SubSeq(FileNames, 1, Len(fzp_files))
        /\ Len(counts) = Len(fzp_files)
        /\ sum_errors = SumSeq(counts)
        /\ \A k \in DOMAIN fzp_files : ~fzp_files[k].wellformed => counts[k] = 1

\* C15 as stated: no step decreases the Runner's error count.
C15_CountNeverDecreases == [][total_errors' >= total_errors]_vars

\* C15: the Runner's error count is never negative and decreases only by the
\* reset to 0 on entry of check(); between two entries it only grows. The
\* caller's sum changes only by adding the count of the file just checked.
C15_CountGrowsWithinCall ==
    [][ /\ total_errors >= 0
        /\ total_errors' >= 0
        /\ total_errors' < total_errors =>
              /\ pc = "idle"
              /\ pc' = "parse"
              /\ total_errors' = 0
        /\ sum_errors' # sum_errors =>
              /\ pc = "done"
              /\ sum_errors' = sum_errors + total_errors ]_vars

\* A batch whose first file counted errors and whose second counted none:
\* the Runner's count has gone back to 0, the caller's sum has not.
C15_Witness ==
    /\ cpc \in {"returned", "exited"}
    /\ Len(counts) = 2
    /\ counts[1] > 0
    /\ counts[2] = 0
    /\ total_errors = 0
    /\ sum_errors = counts[1]

\* C16: the status the process ends with is the total over all files
\* whenever verbose is on or the total is positive, the status of exit(-1)
\* when no valid check name was selected, and 0 otherwise.
C16_ExitCodeIsTotal ==
    (caller = "main" /\ cpc = "exited") =>
        IF check_types = << >> /\ svg_check_types = << >>
        THEN exit_status = ExitStatus(-1)
        ELSE IF verbose \/ sum_errors > 0
             THEN exit_status = sum_errors
             ELSE exit_status = 0

\* The count check() leaves for the file at self.path, read off the file and
\* the counts the rules returned in the call.
LastFileCount ==
    IF ~file.wellformed THEN 1
    ELSE RuleSum
         + (IF svg_check_types = << >> THEN 0
            ELSE Cardinality(MissingAssetViews) + Cardinality(MalformedSvgViews))

\* C20: a call of check() that returns leaves in total_errors the count of
\* that file alone. When search_and_check_fzp_files returns, the value
\* returned is the sum of the per-file counts; after a non-empty discovery
\* self.path is the last discovered file and total_errors its count alone;
\* after an empty one self.path and total_errors are as before and 0 is
\* returned.
C20_LastFileLeftOnRunner ==
    /\ (cpc = "in_check" /\ Returned) => total_errors = LastFileCount
    /\ (caller = "search" /\ cpc = "returned") =>
          /\ Len(counts) = Len(fzp_files)
          /\ sum_errors = SumSeq(counts)
          /\ fzp_files # << >> =>
                /\ path = FileNames[Len(fzp_files)]
                /\ file = fzp_files[Len(fzp_files)]
                /\ total_errors = LastFileCount
                /\ total_errors = counts[Len(counts)]
          /\ fzp_files = << >> =>
                /\ path = before.path
                /\ total_errors = before.total_errors
                /\ sum_errors = 0

\* Two files with different positive counts: the sum is returned, the second
\* file's count and path stay on the Runner.
C20_Witness ==
    /\ caller = "search"
    /\ cpc = "returned"
    /\ Len(counts) = 2
    /\ counts[1] > counts[2]
    /\ counts[2] > 0
    /\ before.total_errors > 0
    /\ total_errors = counts[2]
    /\ sum_errors = counts[1] + counts[2]
    /\ path = FileNames[2]

\* The layerIds a layers block declares, in document order.
RECURSIVE DeclaredLayerIds(_)
DeclaredLayerIds(layer_elements) ==
    IF layer_elements = << >> THEN << >>
    ELSE (IF layer_elements[1] \in {NoLayerId, ""} THEN << >> ELSE << layer_elements[1] >>)
         \o DeclaredLayerIds(Tail(layer_elements))

\* C18: every SVG rule is constructed with the SVG document of the view it
\* runs for and with exactly the layerIds that view's layers block declares,
\* in document order; and the ids of a view are collected also when its
\* asset is a template or is missing.
C18_RuleBoundToOwnViewLayers ==
    /\ \A k \in DOMAIN trace :
          trace[k].op = "svg_rule" =>
              /\ trace[k].doc = file.views[trace[k].view].image
              /\ trace[k].args = DeclaredLayerIds(file.views[trace[k].view].layer_elements)
    /\ pc = "svg_rules" => layer_ids = DeclaredLayerIds(file.views[vi].layer_elements)
    /\ (pc = "views" /\ vi >= 2) =>
          layer_ids = DeclaredLayerIds(file.views[vi - 1].layer_elements)

\* The first view declares ids and its asset is missing; the second declares
\* another id after an entry without one, and both rules ran on its asset
\* with that id alone.
C18_Witness ==
    /\ Returned
    /\ file.views[1].image = "gone.svg"
    /\ file.views[1].layer_elements = << "copper0", "silkscreen" >>
    /\ file.views[2].layer_elements = << NoLayerId, "silkscreen" >>
    /\ Cardinality({ k \in DOMAIN trace : /\ trace[k].op = "svg_rule"
                                         /\ trace[k].view = 2
                                         /\ trace[k].args = << "silkscreen" >> }) = 2

\* The calls of the view loop.
ViewOps == { "get_svg_path", "parse_svg", "svg_rule" }
FzpRulesEnd == 1 + Len(check_types)

\* C19: in one call of check() the FZP is parsed first; then each requested
\* FZP rule is constructed (the path-aware ones with self.path) and run once,
\* in the requested order; the view loop starts only after the last of them;
\* views are taken in document order, and for each loaded SVG every requested
\* SVG rule runs once, in the requested order, before the next view; the
\* report is the last step.
C19_StepsInOrder ==
    /\ \A k \in DOMAIN trace :
          LET e == trace[k] IN
          /\ e.op = "parse_fzp" <=> k = 1
          /\ e.op = "fzp_rule" <=> k \in 2..FzpRulesEnd
          /\ e.op = "fzp_rule" =>
                /\ get_name(e.name) = check_types[k - 1]
                /\ e.doc = file.name
                /\ e.args = (IF e.name \in PathAwareCheckers THEN << path >> ELSE << >>)
          /\ e.op \in ViewOps =>
                /\ k > FzpRulesEnd
                /\ svg_check_types # << >>
                /\ \A j \in 1..(k - 1) :
                      trace[j].op \in ViewOps =>
                          /\ trace[j].view <= e.view
                          /\ trace[j].op = e.op /\ e.op # "svg_rule" => trace[j].view < e.view
          /\ e.op = "parse_svg" =>
                /\ trace[k - 1].op = "get_svg_path"
                /\ trace[k - 1].view = e.view
                /\ (Len(trace) > k + Len(svg_check_types) \/ pc # "svg_rules") =>
                      /\ Len(trace) >= k + Len(svg_check_types)
                      /\ \A i \in 1..Len(svg_check_types) :
                            /\ trace[k + i].op = "svg_rule"
                            /\ trace[k + i].view = e.view
          /\ e.op = "svg_rule" =>
                \E i \in 1..Len(svg_check_types) :
                    /\ k - i >= 1
                    /\ trace[k - i].op = "parse_svg"
                    /\ trace[k - i].view = e.view
                    /\ get_name(e.name) = svg_check_types[i]
          /\ e.op = "report" => (k = Len(trace) /\ pc = "done")
    /\ pc \in {"views", "svg_rules", "report", "done"} => Len(trace) >= FzpRulesEnd
    /\ Returned =>
          /\ trace[Len(trace)].op = "report"
          /\ svg_check_types # << >> =>
                \A v \in AssetViews : \E k \in DOMAIN trace :
                    trace[k].op = "get_svg_path" /\ trace[k].view = v

\* Two FZP rules, one of them path-aware, and two SVG rules on each of two
\* loaded assets: parse, 2 rules, 2 x (resolve, load, 2 rules), report.
C19_Witness ==
    /\ Returned
    /\ check_types = << "connector_terminal", "missing_tags" >>
    /\ svg_check_types = << "ids", "font_size" >>
    /\ Cardinality(LoadableViews) = 2
    /\ Len(trace) = 12
    /\ trace[2].args = << path >>
    /\ trace[3].args = << >>

====
